---- MODULE Spec2Model ----
(***************************************************************************)
(* A model of the NES core of 9Tempest/NES: the 6502 CPU helpers of        *)
(* cpu/src/lib.rs and the PPU register file of src/ppu.rs and              *)
(* src/ppu_registers.rs.                                                   *)
(*                                                                         *)
(* The two Rust structs are the records cpu and ppu; every method is an    *)
(* operator from a record (and its arguments) to the record after the      *)
(* call, named as in the source.  A method that returns a value yields     *)
(* [ppu |-> ..., ret |-> ...] (or cpu).  A Rust panic leaves the record    *)
(* as the unwinding finds it and sets its field panicked; no operation is  *)
(* enabled afterwards.                                                     *)
(*                                                                         *)
(* hist holds the most recent calls (operation, argument, result and what  *)
(* the caller could observe just before the call); budget counts the calls *)
(* a behaviour may still make.  Neither is read by any operation.          *)
(***************************************************************************)
EXTENDS Integers, Sequences, FiniteSets, TLC

VARIABLES cpu, ppu, hist, budget

vars == <<cpu, ppu, hist, budget>>

(***************************************************************************)
(* Bounds of the model: how many calls each specification explores.        *)
(***************************************************************************)
MaxRegOps == 4
MaxStatusOps == 4
MaxStackOps == 3
MaxOamOps == 3
MaxDmaOps == 1
MaxDataOps == 3
MaxMirrorOps == 2
MaxPaletteOps == 4
MaxTickOps == 3
MaxResetOps == 4

(***************************************************************************)
(* Machine arithmetic.  Rust's u8 and u16 operators, on naturals.          *)
(***************************************************************************)
Byte == 0..255

\* a & b, bit by bit from the low end
RECURSIVE BitAnd(_, _)
BitAnd(a, b) ==
    IF a = 0 \/ b = 0 THEN 0
    ELSE (a % 2) * (b % 2) + 2 * BitAnd(a \div 2, b \div 2)

\* a | b
BitOr(a, b) == a + b - BitAnd(a, b)

\* a ^ b
BitXor(a, b) == a + b - 2 * BitAnd(a, b)

\* !a on a u8
BitNot8(a) == 255 - a

\* u8::wrapping_add, u8::wrapping_sub
WrappingAdd8(a, b) == (a + b) % 256
WrappingSub8(a, b) == (a - b + 256) % 256

(***************************************************************************)
(* Zero-initialised byte arrays ([0; N]) are kept as the function of their *)
(* non-zero cells: the array reads 0 everywhere else.  The length is       *)
(* checked by the caller where the source indexes (an index out of range   *)
(* panics).                                                                *)
(***************************************************************************)
EmptyMem == [j \in {} |-> 0]

MemGet(m, i) == IF i \in DOMAIN m THEN m[i] ELSE 0

MemSet(m, i, v) ==
    IF v = 0
    THEN [j \in (DOMAIN m) \ {i} |-> m[j]]
    ELSE [j \in (DOMAIN m) \cup {i} |-> IF j = i THEN v ELSE m[j]]

(***************************************************************************)
(* ppu_registers.rs: AddrRegister ($2006)                                  *)
(***************************************************************************)
AddrRegister_new == [val0 |-> 0, val1 |-> 0, hi_ptr |-> TRUE]

AddrRegister_get(r) == BitOr(r.val0 * 256, r.val1)

AddrRegister_set(r, data) ==
    [r EXCEPT !.val0 = (data \div 256) % 256, !.val1 = BitAnd(data, \hFF)]

\* check_mirror keeping fifteen address bits instead of fourteen
check_mirror_Mask15(r) ==
    IF AddrRegister_get(r) > \h3FFF
    THEN AddrRegister_set(r, BitAnd(AddrRegister_get(r), \h7FFF))
    ELSE r

check_mirror(r) ==
    IF AddrRegister_get(r) > \h3FFF
    THEN AddrRegister_set(r, BitAnd(AddrRegister_get(r), \h3FFF))
    ELSE r

AddrRegister_update(r, data) ==
    LET w == IF r.hi_ptr THEN [r EXCEPT !.val0 = data]
                         ELSE [r EXCEPT !.val1 = data]
        m == check_mirror(w)
    IN  [m EXCEPT !.hi_ptr = ~r.hi_ptr]

\* increment without its closing check_mirror
increment_NoMirror(r, inc) ==
    LET lo == r.val1
        nlo == WrappingAdd8(r.val1, inc)
    IN  IF lo > nlo
        THEN [r EXCEPT !.val1 = nlo, !.val0 = WrappingAdd8(r.val0, 1)]
        ELSE [r EXCEPT !.val1 = nlo]

\* increment dropping the carry from the low byte into the high byte
increment_NoCarry(r, inc) ==
    check_mirror([r EXCEPT !.val1 = WrappingAdd8(r.val1, inc)])

increment(r, inc) ==
    LET lo == r.val1
        nlo == WrappingAdd8(r.val1, inc)
        w == IF lo > nlo
             THEN [r EXCEPT !.val1 = nlo, !.val0 = WrappingAdd8(r.val0, 1)]
             ELSE [r EXCEPT !.val1 = nlo]
    IN  check_mirror(w)

AddrRegister_reset_latch(r) == [r EXCEPT !.hi_ptr = TRUE]

(***************************************************************************)
(* ppu_registers.rs: ScrollRegister ($2005)                                *)
(***************************************************************************)
ScrollRegister_new == [x |-> 0, y |-> 0, latch |-> TRUE]

ScrollRegister_update(r, data) ==
    LET w == IF r.latch THEN [r EXCEPT !.x = data] ELSE [r EXCEPT !.y = data]
    IN  [w EXCEPT !.latch = ~r.latch]

ScrollRegister_reset_latch(r) == [r EXCEPT !.latch = TRUE]

(***************************************************************************)
(* ppu_registers.rs: ControlRegister ($2000), MaskRegister ($2001) and     *)
(* StatusRegister ($2002), each the u8 of its bitflags.                    *)
(***************************************************************************)
VRAM_ADD_INCREMENT == 4
GENERATE_NMI == 128
SPRITE_OVERFLOW == 32
SPRITE_ZERO_HIT == 64
VBLANK_STARTED == 128

\* bitflags: contains, set(flag, value), remove
Contains(bits, flag) == BitAnd(bits, flag) = flag
SetFlag(bits, flag, status) ==
    IF status THEN BitOr(bits, flag) ELSE BitAnd(bits, BitNot8(flag))

ControlRegister_new == 0
ControlRegister_update(bits, data) == data
vram_addr_increment(bits) ==
    IF ~Contains(bits, VRAM_ADD_INCREMENT) THEN 1 ELSE 32

\* Called by ppu.rs, its body is not among the sources: the NMI-enable bit
\* of CTRL (bit 7, GENERATE_NMI), as the register's documentation says.
generate_vblank_nmi(bits) == Contains(bits, GENERATE_NMI)

MaskRegister_new == 0
MaskRegister_update(bits, data) == data

StatusRegister_new == 0
set_vblank_status(bits, status) == SetFlag(bits, VBLANK_STARTED, status)
set_sprite_zero_hit(bits, status) == SetFlag(bits, SPRITE_ZERO_HIT, status)
set_sprite_overflow(bits, status) == SetFlag(bits, SPRITE_OVERFLOW, status)
reset_vblank_status(bits) == SetFlag(bits, VBLANK_STARTED, FALSE)
is_in_vblank(bits) == Contains(bits, VBLANK_STARTED)
snapshot(bits) == bits

(***************************************************************************)
(* ppu.rs: the PPU struct.  chr_rom is the cartridge's pattern memory, a   *)
(* Vec<u8> with its length; the other memories are fixed arrays.           *)
(***************************************************************************)
MAX_CYCLE == 314
MAX_SCAN_LINE == 261
PALETTE_SIZE == 32
VRAM_SIZE == 2048
OAM_SIZE == 256

Mirroring == {"HORIZONTAL", "VERTICAL"}

\* Option<T>: None and Some(v); also the result of a call in hist (None for
\* a call that returns () or does not return)
None == <<>>
Some(v) == <<v>>

PPU_new(chr_rom, mirroring) ==
    [ chr_rom           |-> chr_rom,
      mirroring         |-> mirroring,
      vram              |-> EmptyMem,
      oam_data          |-> [i \in 0..(OAM_SIZE - 1) |-> 0],
      palette_table     |-> [i \in 0..(PALETTE_SIZE - 1) |-> 0],
      internal_data_buf |-> 0,
      clock_cycles      |-> 0,
      scan_lines        |-> 0,
      nmi_irq           |-> None,
      reg_addr          |-> AddrRegister_new,
      reg_ctrl          |-> ControlRegister_new,
      reg_oam_addr      |-> 0,
      reg_mask          |-> MaskRegister_new,
      reg_status        |-> StatusRegister_new,
      reg_scroll        |-> ScrollRegister_new,
      panicked          |-> FALSE ]

Panic(p) == [p EXCEPT !.panicked = TRUE]

write_to_ppu_mask(p, value) ==
    [p EXCEPT !.reg_mask = MaskRegister_update(p.reg_mask, value)]

write_to_ppu_addr(p, value) ==
    [p EXCEPT !.reg_addr = AddrRegister_update(p.reg_addr, value)]

\* write_to_ctrl latching an NMI whenever the written byte enables it in
\* vblank, whatever the bit was before
write_to_ctrl_NoEdge(p, value) ==
    LET q == [p EXCEPT !.reg_ctrl = ControlRegister_update(p.reg_ctrl, value)]
    IN  IF generate_vblank_nmi(q.reg_ctrl) /\ is_in_vblank(q.reg_status)
        THEN [q EXCEPT !.nmi_irq = Some(1)]
        ELSE q

write_to_ctrl(p, value) ==
    LET before_ctrl_nmi == generate_vblank_nmi(p.reg_ctrl)
        q == [p EXCEPT !.reg_ctrl = ControlRegister_update(p.reg_ctrl, value)]
    IN  IF ~before_ctrl_nmi /\ generate_vblank_nmi(q.reg_ctrl)
           /\ is_in_vblank(q.reg_status)
        THEN [q EXCEPT !.nmi_irq = Some(1)]
        ELSE q

write_to_oam_addr(p, value) == [p EXCEPT !.reg_oam_addr = value]

write_to_oam_data(p, value) ==
    [p EXCEPT !.oam_data[p.reg_oam_addr] = value,
              !.reg_oam_addr = WrappingAdd8(p.reg_oam_addr, 1)]

write_to_scroll(p, value) ==
    [p EXCEPT !.reg_scroll = ScrollRegister_update(p.reg_scroll, value)]

increment_vram_addr(p) ==
    [p EXCEPT !.reg_addr = increment(p.reg_addr, vram_addr_increment(p.reg_ctrl))]

\* read_ppu_status leaving the $2006 latch as it is
read_ppu_status_KeepLatch(p) ==
    [ ppu |-> [p EXCEPT !.reg_scroll = ScrollRegister_reset_latch(p.reg_scroll),
                        !.reg_status = reset_vblank_status(p.reg_status)],
      ret |-> snapshot(p.reg_status) ]

\* read_ppu_status taking its snapshot after clearing vblank
read_ppu_status_LateSnapshot(p) ==
    LET q == [p EXCEPT !.reg_addr = AddrRegister_reset_latch(p.reg_addr),
                       !.reg_scroll = ScrollRegister_reset_latch(p.reg_scroll),
                       !.reg_status = reset_vblank_status(p.reg_status)]
    IN  [ppu |-> q, ret |-> snapshot(q.reg_status)]

read_ppu_status(p) ==
    LET res == snapshot(p.reg_status)
    IN  [ ppu |-> [p EXCEPT !.reg_addr = AddrRegister_reset_latch(p.reg_addr),
                            !.reg_scroll = ScrollRegister_reset_latch(p.reg_scroll),
                            !.reg_status = reset_vblank_status(p.reg_status)],
          ret |-> res ]

read_oam_data(p) ==
    LET result == p.oam_data[p.reg_oam_addr]
    IN  [ ppu |-> [p EXCEPT !.reg_oam_addr = WrappingAdd8(p.reg_oam_addr, 1)],
          ret |-> result ]

pull_nmi_irq(p) == [ppu |-> [p EXCEPT !.nmi_irq = None], ret |-> p.nmi_irq]

\* mirror_vram_addr with the Horizontal arms of pages 1 and 2 exchanged for
\* the Vertical ones
mirror_vram_addr_Swapped(p, addr) ==
    LET mirrored_vram == BitAnd(addr, \h2FFF)
        vram_index == mirrored_vram - \h2000
        name_table == vram_index \div \h400
    IN  CASE p.mirroring = "HORIZONTAL" /\ name_table \in {2, 3} -> vram_index - \h800
          [] p.mirroring = "VERTICAL" /\ name_table = 1 -> vram_index - \h400
          [] p.mirroring = "VERTICAL" /\ name_table = 2 -> vram_index - \h400
          [] p.mirroring = "VERTICAL" /\ name_table = 3 -> vram_index - \h800
          [] OTHER -> vram_index

mirror_vram_addr(p, addr) ==
    LET mirrored_vram == BitAnd(addr, \h2FFF)
        vram_index == mirrored_vram - \h2000
        name_table == vram_index \div \h400
    IN  CASE p.mirroring = "VERTICAL" /\ name_table \in {2, 3} -> vram_index - \h800
          [] p.mirroring = "HORIZONTAL" /\ name_table = 1 -> vram_index - \h400
          [] p.mirroring = "HORIZONTAL" /\ name_table = 2 -> vram_index - \h400
          [] p.mirroring = "HORIZONTAL" /\ name_table = 3 -> vram_index - \h800
          [] OTHER -> vram_index

\* self.palette_table[i] = value; self.palette_table[i]
PaletteStore(p, i, value) ==
    IF i \in 0..(PALETTE_SIZE - 1)
    THEN [p EXCEPT !.palette_table[i] = value]
    ELSE Panic(p)

PaletteLoad(p, i) ==
    IF i \in 0..(PALETTE_SIZE - 1)
    THEN [ppu |-> p, ret |-> Some(p.palette_table[i])]
    ELSE [ppu |-> Panic(p), ret |-> None]

\* self.vram[i] = value
VramStore(p, i, value) ==
    IF i \in 0..(VRAM_SIZE - 1)
    THEN [p EXCEPT !.vram = MemSet(p.vram, i, value)]
    ELSE Panic(p)

\* let result = self.internal_data_buf; self.internal_data_buf = mem[i]; result
BufferedLoad(p, mem, len, i) ==
    IF i \in 0..(len - 1)
    THEN [ ppu |-> [p EXCEPT !.internal_data_buf = MemGet(mem, i)],
           ret |-> Some(p.internal_data_buf) ]
    ELSE [ppu |-> Panic(p), ret |-> None]

\* write_to_data without the arm of the four alias addresses
write_to_data_NoAlias(p, value) ==
    LET addr == AddrRegister_get(p.reg_addr)
        q == increment_vram_addr(p)
    IN  CASE addr \in 0..\h1FFF -> Panic(q)
          [] addr \in \h2000..\h2FFF -> VramStore(q, mirror_vram_addr(q, addr), value)
          [] addr \in \h3000..\h3EFF -> Panic(q)
          [] addr \in \h3F00..\h3FFF -> PaletteStore(q, addr - \h3F00, value)
          [] OTHER -> Panic(q)

write_to_data(p, value) ==
    LET addr == AddrRegister_get(p.reg_addr)
        q == increment_vram_addr(p)
    IN  CASE addr \in 0..\h1FFF -> Panic(q)
          [] addr \in \h2000..\h2FFF -> VramStore(q, mirror_vram_addr(q, addr), value)
          [] addr \in \h3000..\h3EFF -> Panic(q)
          [] addr \in {\h3F10, \h3F14, \h3F18, \h3F1C} ->
                LET add_mirror == addr - \h10
                IN  PaletteStore(q, add_mirror - \h3F00, value)
          [] addr \in \h3F00..\h3FFF /\ addr \notin {\h3F10, \h3F14, \h3F18, \h3F1C} ->
                PaletteStore(q, addr - \h3F00, value)
          [] OTHER -> Panic(q)

\* read_data serving $3000-$3EFF from the nametables below it
read_data_MirrorDown(p) ==
    LET addr == AddrRegister_get(p.reg_addr)
        q == increment_vram_addr(p)
    IN  CASE addr \in 0..\h1FFF ->
                BufferedLoad(q, q.chr_rom.mem, q.chr_rom.len, addr)
          [] addr \in \h2000..\h3EFF ->
                BufferedLoad(q, q.vram, VRAM_SIZE, mirror_vram_addr(q, addr))
          [] addr \in {\h3F10, \h3F14, \h3F18, \h3F1C} ->
                LET add_mirror == addr - \h10
                IN  PaletteLoad(q, add_mirror - \h3F00)
          [] addr \in \h3F00..\h3FFF /\ addr \notin {\h3F10, \h3F14, \h3F18, \h3F1C} ->
                PaletteLoad(q, addr - \h3F00)
          [] OTHER -> [ppu |-> Panic(q), ret |-> None]

read_data(p) ==
    LET addr == AddrRegister_get(p.reg_addr)
        q == increment_vram_addr(p)
    IN  CASE addr \in 0..\h1FFF ->
                BufferedLoad(q, q.chr_rom.mem, q.chr_rom.len, addr)
          [] addr \in \h2000..\h2FFF ->
                BufferedLoad(q, q.vram, VRAM_SIZE, mirror_vram_addr(q, addr))
          [] addr \in \h3000..\h3EFF -> [ppu |-> Panic(q), ret |-> None]
          [] addr \in {\h3F10, \h3F14, \h3F18, \h3F1C} ->
                LET add_mirror == addr - \h10
                IN  PaletteLoad(q, add_mirror - \h3F00)
          [] addr \in \h3F00..\h3FFF /\ addr \notin {\h3F10, \h3F14, \h3F18, \h3F1C} ->
                PaletteLoad(q, addr - \h3F00)
          [] OTHER -> [ppu |-> Panic(q), ret |-> None]

\* The loop body of write_oam_dma, for one byte x of the page
OamDmaByte(p, x) ==
    [p EXCEPT !.oam_data[p.reg_oam_addr] = x,
              !.reg_oam_addr = WrappingAdd8(p.reg_oam_addr, 1)]

\* for x in data.iter(): the bytes data[lo..hi] in order.  The range is
\* halved, and p looked at before its bytes are written, only to keep the
\* evaluation shallow; the order of the writes is the loop's.
RECURSIVE OamDmaRange(_, _, _, _)
OamDmaRange(p, data, lo, hi) ==
    IF p.panicked \/ lo > hi THEN p
    ELSE IF lo = hi THEN OamDmaByte(p, data[lo])
    ELSE LET mid == (lo + hi) \div 2
         IN  OamDmaRange(OamDmaRange(p, data, lo, mid), data, mid + 1, hi)

\* write_oam_dma copying to OAM from cell 0 whatever OAMADDR holds
write_oam_dma_FromZero(p, data) ==
    IF Len(data) # 256 THEN Panic(p)
    ELSE [OamDmaRange([p EXCEPT !.reg_oam_addr = 0], data, 1, Len(data))
            EXCEPT !.reg_oam_addr = p.reg_oam_addr]

write_oam_dma(p, data) ==
    IF Len(data) # 256 THEN Panic(p) ELSE OamDmaRange(p, data, 1, Len(data))

\* tick counting every scanline that the cycles hold, not one per call
tick_ManyLines(p, cycles) ==
    LET c == p.clock_cycles + cycles
        p1 == [p EXCEPT !.scan_lines = p.scan_lines + (c \div MAX_CYCLE),
                        !.clock_cycles = c % MAX_CYCLE]
        p2 == IF p1.scan_lines = 241 /\ generate_vblank_nmi(p1.reg_ctrl)
              THEN [p1 EXCEPT !.reg_status = set_vblank_status(p1.reg_status, TRUE),
                              !.nmi_irq = Some(1)]
              ELSE p1
    IN  IF p2.scan_lines > MAX_SCAN_LINE
        THEN [p2 EXCEPT !.scan_lines = 0,
                        !.reg_status = reset_vblank_status(p2.reg_status)]
        ELSE p2

\* tick: the dot counter takes the cycles, one scanline is counted when it
\* has reached MAX_CYCLE, then the tests of line 241 and of the frame's end
tick(p, cycles) ==
    LET c == p.clock_cycles + cycles
        p1 == IF c >= MAX_CYCLE
              THEN [p EXCEPT !.scan_lines = p.scan_lines + 1,
                             !.clock_cycles = c - MAX_CYCLE]
              ELSE [p EXCEPT !.clock_cycles = c]
        p2 == IF p1.scan_lines = 241 /\ generate_vblank_nmi(p1.reg_ctrl)
              THEN [p1 EXCEPT !.reg_status = set_vblank_status(p1.reg_status, TRUE),
                              !.nmi_irq = Some(1)]
              ELSE p1
    IN  IF p2.scan_lines > MAX_SCAN_LINE
        THEN [p2 EXCEPT !.scan_lines = 0,
                        !.reg_status = reset_vblank_status(p2.reg_status)]
        ELSE p2

(***************************************************************************)
(* The Bus behind the CPU's Mem implementation.  Its source is not among   *)
(* the files; it is modelled from the specification's address map: 2 KiB   *)
(* of RAM mirrored every $0800 across $0000-$1FFF; elsewhere reads give 0  *)
(* and writes are dropped.  $8000-$FFFF reads the cartridge's PRG-ROM, a    *)
(* 16 KiB one mirrored to fill the 32 KiB; a new Bus holds a blank one.    *)
(***************************************************************************)
PRG_ROM_SIZE == 32768

Bus_new == [ram |-> EmptyMem, prg_rom |-> [len |-> PRG_ROM_SIZE, mem |-> EmptyMem]]

Bus_mem_read(bus, addr) ==
    IF addr \in 0..\h1FFF THEN MemGet(bus.ram, BitAnd(addr, \h07FF))
    ELSE IF addr \in \h8000..\hFFFF
         THEN MemGet(bus.prg_rom.mem, (addr - \h8000) % bus.prg_rom.len)
         ELSE 0

Bus_mem_write(bus, addr, data) ==
    IF addr \in 0..\h1FFF
    THEN [bus EXCEPT !.ram = MemSet(bus.ram, BitAnd(addr, \h07FF), data)]
    ELSE bus

(***************************************************************************)
(* cpu/src/lib.rs: the CPU struct and its helpers.                         *)
(***************************************************************************)
CARRY_MASK == 1
ZERO_MASK == 2
IRQ_MASK == 4
DECIMAL_MASK == 8
BREAK1_MASK == 16
BREAK2_MASK == 16
OVERFLOW_MASK == 64
NEGATIVE_MASK == 128
STACK == 256
STACK_RESET == 253
PC_LOAD_ADDR == 65532
CODE_START_ADDR == 1536

CPU_new ==
    [ A |-> 0, X |-> 0, Y |-> 0, pc |-> CODE_START_ADDR, sp |-> STACK_RESET,
      state |-> \b00100100, bus |-> Bus_new, at |-> "idle" ]

mem_read(c, addr) == Bus_mem_read(c.bus, addr)

mem_write(c, addr, data) == [c EXCEPT !.bus = Bus_mem_write(c.bus, addr, data)]

\* Mem::mem_read_u16 and Mem::mem_write_u16, little-endian
mem_read_u16(c, pos) ==
    LET lo == mem_read(c, pos)
        hi == mem_read(c, pos + 1)
    IN  BitOr(hi * 256, lo)

mem_write_u16(c, pos, data) ==
    LET hi == data \div 256
        lo == BitAnd(data, \hFF)
    IN  mem_write(mem_write(c, pos, lo), pos + 1, hi)

fetch_carry_bit(c) == BitAnd(c.state \div 1, 1)

set_state(c, mask, state) ==
    IF state
    THEN [c EXCEPT !.state = BitOr(c.state, mask)]
    ELSE [c EXCEPT !.state = BitAnd(c.state, BitNot8(mask))]

set_state4reg(c, reg) ==
    LET z == IF reg = 0 THEN set_state(c, ZERO_MASK, TRUE)
                        ELSE set_state(c, ZERO_MASK, FALSE)
    IN  IF BitAnd(reg, NEGATIVE_MASK) # 0
        THEN set_state(z, NEGATIVE_MASK, TRUE)
        ELSE set_state(z, NEGATIVE_MASK, FALSE)

set_reg_A(c, data) == set_state4reg([c EXCEPT !.A = data], data)

set_reg_X(c, data) == set_state4reg([c EXCEPT !.X = data], data)

\* TXS (0x9a)
txs(c) == [c EXCEPT !.sp = c.X]

\* stack_pop with a plain increment of the stack pointer
stack_pop_NoWrap(c) ==
    LET d == [c EXCEPT !.sp = c.sp + 1]
    IN  [cpu |-> d, ret |-> Some(mem_read(d, STACK + d.sp))]

stack_pop(c) ==
    LET d == [c EXCEPT !.sp = WrappingAdd8(c.sp, 1)]
    IN  [cpu |-> d, ret |-> Some(mem_read(d, STACK + d.sp))]

reset(c) ==
    [c EXCEPT !.A = 0, !.X = 0, !.Y = 0, !.state = \b00100100,
              !.pc = mem_read_u16(c, PC_LOAD_ADDR),
              !.sp = STACK_RESET]

\* load_program: the bytes to 0x0600 + i, then the vector
RECURSIVE LoadBytes(_, _, _)
LoadBytes(c, program, i) ==
    IF i >= Len(program) THEN c
    ELSE LoadBytes(mem_write(c, \h0600 + i, program[i + 1]), program, i + 1)

load_program(c, program) ==
    mem_write_u16(LoadBytes(c, program, 0), PC_LOAD_ADDR, CODE_START_ADDR)

\* fetch_next: the opcode at pc, pc past it
fetch_next(c) == [cpu |-> [c EXCEPT !.pc = c.pc + 1], ret |-> mem_read(c, c.pc)]

\* run_with_callback up to the head of its loop: pc is set to 0x0600
run_enter(c) == [c EXCEPT !.pc = \h0600, !.at = "loop"]

stack_push(c, data) ==
    LET d == mem_write(c, STACK + c.sp, data)
    IN  [d EXCEPT !.sp = WrappingSub8(d.sp, 1)]

\* add_to_register_a leaving the carry flag out of the sum
add_to_register_a_NoCarryIn(c, data) ==
    LET sum == c.A + data
        c1 == set_state(c, CARRY_MASK, sum > \hFF)
        c2 == set_state(c1, OVERFLOW_MASK, TRUE)
    IN  set_reg_A(c2, sum % 256)

add_to_register_a(c, data) ==
    LET sum == c.A + data + (IF fetch_carry_bit(c) = 1 THEN 1 ELSE 0)
        carry == sum > \hFF
        c1 == IF carry THEN set_state(c, CARRY_MASK, TRUE)
                       ELSE set_state(c, CARRY_MASK, FALSE)
        result == sum % 256
        c2 == IF BitAnd(BitAnd(BitXor(data, result), BitXor(result, c1.A)), \h80) # 0
              THEN set_state(c1, OVERFLOW_MASK, TRUE)
              ELSE set_state(c1, OVERFLOW_MASK, TRUE)
    IN  set_reg_A(c2, result)

stack_push_u16(c, data) ==
    LET hi == data \div 256
        lo == BitAnd(data, \hFF)
    IN  stack_push(stack_push(c, hi), lo)

stack_pop_u16(c) ==
    LET l == stack_pop(c)
        h == stack_pop(l.cpu)
    IN  [cpu |-> h.cpu, ret |-> BitOr(h.ret[1] * 256, l.ret[1])]

fetch_zero_bit(c) == BitAnd(c.state \div 2, 1)
fetch_irq_bit(c) == BitAnd(c.state \div 4, 1)
fetch_break1_bit(c) == BitAnd(c.state \div 16, 1)
fetch_break2_bit(c) == BitAnd(c.state \div 32, 1)
fetch_overflow_bit(c) == BitAnd(c.state \div 64, 1)
fetch_negative_bit(c) == BitAnd(c.state \div 128, 1)

set_reg_Y(c, data) == set_state4reg([c EXCEPT !.Y = data], data)

\* set_bflag(five, six): BREAK1_MASK, then BREAK2_MASK
set_bflag(c, five, six) ==
    set_state(set_state(c, BREAK1_MASK, five), BREAK2_MASK, six)

set_zero_negative(c, result) ==
    LET seventh_bit == BitAnd(result, \hFF) = 1
        n == set_state(c, NEGATIVE_MASK, seventh_bit)
        is_zero == result = 0
    IN  set_state(n, ZERO_MASK, is_zero)

\* get_operand_address: pc is at the operand.  The sums of the zero-page
\* indexed modes are u16 sums, as in the code.
get_operand_address(c, mode) ==
    CASE mode = "Immediate" -> c.pc
      [] mode = "ZeroPage" -> mem_read(c, c.pc)
      [] mode = "ZeroPage_X" -> (mem_read(c, c.pc) + c.X) % 65536
      [] mode = "ZeroPage_Y" -> (mem_read(c, c.pc) + c.Y) % 65536
      [] mode = "Absolute" -> mem_read_u16(c, c.pc)
      [] mode = "Absolute_X" -> (mem_read_u16(c, c.pc) + c.X) % 65536
      [] mode = "Absolute_Y" -> (mem_read_u16(c, c.pc) + c.Y) % 65536
      [] mode = "Indirect_X" ->
            LET base == mem_read(c, c.pc)
                ptr == WrappingAdd8(base, c.X)
                lo == mem_read(c, ptr)
                hi == mem_read(c, WrappingAdd8(ptr, 1))
            IN  BitOr(hi * 256, lo)
      [] mode = "Indirect_Y" ->
            LET base == mem_read(c, c.pc)
                lo == mem_read(c, base)
                hi == mem_read(c, WrappingAdd8(base, 1))
                deref_base == BitOr(hi * 256, lo)
            IN  (deref_base + c.Y) % 65536

fetch_operand(c, mode) ==
    IF mode = "Accumulator" THEN c.A
    ELSE mem_read(c, get_operand_address(c, mode))

compare(c, mode, compare_with) ==
    LET data == fetch_operand(c, mode)
        set_carry == data <= compare_with
        c1 == set_state(c, CARRY_MASK, set_carry)
    IN  set_zero_negative(c1, WrappingSub8(compare_with, data))

\* branch: the operand byte as i8, widened to u16, added to pc + 1
branch(c, condition) ==
    IF condition
    THEN LET jump == mem_read(c, c.pc)
             jump_u16 == IF jump >= 128 THEN \hFF00 + jump ELSE jump
             jump_addr == (((c.pc + 1) % 65536) + jump_u16) % 65536
         IN  [c EXCEPT !.pc = jump_addr]
    ELSE c

lda(c, mode) == set_reg_A(c, fetch_operand(c, mode))
sta(c, mode) == mem_write(c, get_operand_address(c, mode), c.A)
ldx(c, mode) == set_reg_X(c, fetch_operand(c, mode))
ldy(c, mode) == set_reg_Y(c, fetch_operand(c, mode))

(***************************************************************************)
(* The opcode table (opcode::OPCODES_MAP).  Its source is not among the    *)
(* files; the entries are modelled from the specification's decoding       *)
(* table: the addressing mode and the size in bytes of each instruction    *)
(* (one byte of opcode and the operand bytes of the mode).  The table      *)
(* holds the instructions that run_turn translates.                        *)
(***************************************************************************)
OpCode(mode, bytes) == [mode |-> mode, bytes |-> bytes]

OPCODES_MAP ==
    [ op \in { \h00, \hEA, \hE8, \h9A, \h08, \h28, \h48, \h68, \h38, \h18,
               \h78, \h58, \h40, \h60, \h4C, \h6C, \h20, \h90, \hB0, \hF0,
               \hD0, \hC9, \hE0, \hC0, \hA9, \hA2, \hA0, \hA5, \h85, \hB5,
               \h95, \hB6, \h8D, \h2A, \h26, \h6A, \h66 } |->
        CASE op \in {\hC9, \hE0, \hC0, \hA9, \hA2, \hA0} -> OpCode("Immediate", 2)
          [] op \in {\hA5, \h85, \h26, \h66} -> OpCode("ZeroPage", 2)
          [] op \in {\h2A, \h6A} -> OpCode("Accumulator", 1)
          [] op \in {\hB5, \h95} -> OpCode("ZeroPage_X", 2)
          [] op = \hB6 -> OpCode("ZeroPage_Y", 2)
          [] op = \h8D -> OpCode("Absolute", 3)
          [] op \in {\h4C, \h6C, \h20} -> OpCode("NoneAddressing", 3)
          [] op \in {\h90, \hB0, \hF0, \hD0} -> OpCode("NoneAddressing", 2)
          [] OTHER -> OpCode("NoneAddressing", 1) ]

\* The arms of the match of run_with_callback that write pc or P
rti(d) ==
    LET p == stack_pop(d)
        s == set_bflag([p.cpu EXCEPT !.state = p.ret[1]], FALSE, TRUE)
        q == stack_pop_u16(s)
    IN  [q.cpu EXCEPT !.pc = q.ret]

rts(d) ==
    LET q == stack_pop_u16(d)
    IN  [q.cpu EXCEPT !.pc = q.ret + 1]

jmp_absolute(d) == [d EXCEPT !.pc = mem_read_u16(d, d.pc)]

jmp_indirect(d) ==
    LET mem_address == mem_read_u16(d, d.pc)
        indirect_ref ==
            IF BitAnd(mem_address, \h00FF) = \h00FF
            THEN LET lo == mem_read(d, mem_address)
                     hi == mem_read(d, BitAnd(mem_address, \hFF00))
                 IN  BitOr(hi * 256, lo)
            ELSE mem_read_u16(d, mem_address)
    IN  [d EXCEPT !.pc = indirect_ref]

jsr(d) ==
    LET mem_address == mem_read_u16(d, d.pc)
        pushed == stack_push_u16(d, d.pc + 2 - 1)
    IN  [pushed EXCEPT !.pc = mem_address]

php(d) == set_bflag(stack_push(d, d.state), TRUE, TRUE)

plp(d) ==
    LET p == stack_pop(d)
    IN  set_bflag([p.cpu EXCEPT !.state = p.ret[1]], FALSE, TRUE)

pla(d) ==
    LET p == stack_pop(d)
    IN  set_state4reg([p.cpu EXCEPT !.A = p.ret[1]], p.ret[1])

\* The rotates, on the accumulator and on memory.  A shift of a u8 drops
\* the bit shifted out.
rol_acc(d) ==
    LET data == d.A
        old_carry == fetch_carry_bit(d) = 1
        set_carry == data \div 128 = 1
        c1 == set_state(d, CARRY_MASK, set_carry)
        shifted == (data * 2) % 256
        rotated == IF old_carry THEN BitOr(shifted, 1) ELSE shifted
    IN  set_reg_A(c1, rotated)

rol(d, mode) ==
    LET addr == get_operand_address(d, mode)
        data == mem_read(d, addr)
        old_carry == fetch_carry_bit(d) = 1
        set_carry == data \div 128 = 1
        c1 == set_state(d, CARRY_MASK, set_carry)
        shifted == (data * 2) % 256
        rotated == IF old_carry THEN BitOr(shifted, 1) ELSE shifted
    IN  set_zero_negative(mem_write(c1, addr, rotated), rotated)

ror_acc(d) ==
    LET data == d.A
        old_carry == fetch_carry_bit(d) = 1
        set_carry == BitAnd(data, 1) = 1
        c1 == set_state(d, CARRY_MASK, set_carry)
        shifted == (data * 2) % 256
        rotated == IF old_carry THEN BitOr(shifted, \b10000000) ELSE shifted
    IN  set_reg_A(c1, rotated)

ror(d, mode) ==
    LET addr == get_operand_address(d, mode)
        data == mem_read(d, addr)
        old_carry == fetch_carry_bit(d) = 1
        set_carry == BitAnd(data, 1) = 1
        c1 == set_state(d, CARRY_MASK, set_carry)
        shifted == (data * 2) % 256
        rotated == IF old_carry THEN BitOr(shifted, \b10000000) ELSE shifted
    IN  set_zero_negative(mem_write(c1, addr, rotated), rotated)

\* One turn of the loop of run_with_callback (the callback of run is empty;
\* print_status reads and prints, and changes nothing): fetch_next, the
\* table entry, the instruction, and the pc rule that ends the turn.  BRK
\* returns from the function.  An opcode outside the table stops the model
\* where the code panics; the programs of the specifications hold none.
run_turn(c) ==
    LET f == fetch_next(c)
        op == f.ret
        d == f.cpu
        program_counter_state == d.pc
    IN  IF op \notin DOMAIN OPCODES_MAP
        THEN [cpu |-> [d EXCEPT !.at = "panicked"], ret |-> op]
        ELSE
        LET code == OPCODES_MAP[op]
            e == CASE op = \h40 -> rti(d)
                   [] op = \h60 -> rts(d)
                   [] op = \h4C -> jmp_absolute(d)
                   [] op = \h6C -> jmp_indirect(d)
                   [] op = \h20 -> jsr(d)
                   [] op = \h90 -> branch(d, fetch_carry_bit(d) = 0)
                   [] op = \hB0 -> branch(d, fetch_carry_bit(d) = 1)
                   [] op = \hF0 -> branch(d, fetch_zero_bit(d) = 1)
                   [] op = \hD0 -> branch(d, fetch_zero_bit(d) = 0)
                   [] op = \hC9 -> compare(d, code.mode, d.A)
                   [] op = \hE0 -> compare(d, code.mode, d.X)
                   [] op = \hC0 -> compare(d, code.mode, d.Y)
                   [] op \in {\hA9, \hA5, \hB5} -> lda(d, code.mode)
                   [] op \in {\h85, \h95, \h8D} -> sta(d, code.mode)
                   [] op \in {\hA2, \hB6} -> ldx(d, code.mode)
                   [] op = \hA0 -> ldy(d, code.mode)
                   [] op = \h9A -> txs(d)
                   [] op = \h08 -> php(d)
                   [] op = \h28 -> plp(d)
                   [] op = \h48 -> stack_push(d, d.A)
                   [] op = \h68 -> pla(d)
                   [] op = \h2A -> rol_acc(d)
                   [] op = \h26 -> rol(d, code.mode)
                   [] op = \h6A -> ror_acc(d)
                   [] op = \h66 -> ror(d, code.mode)
                   [] op = \h38 -> set_state(d, CARRY_MASK, TRUE)
                   [] op = \h18 -> set_state(d, CARRY_MASK, FALSE)
                   [] op = \h78 -> set_state(d, IRQ_MASK, TRUE)
                   [] op = \h58 -> set_state(d, IRQ_MASK, FALSE)
                   [] op = \hE8 -> set_state4reg([d EXCEPT !.X = WrappingAdd8(d.X, 1)],
                                                 WrappingAdd8(d.X, 1))
                   [] op = \h00 -> [d EXCEPT !.at = "idle"]
                   [] op = \hEA -> d
        IN  [ cpu |-> IF e.at = "loop" /\ program_counter_state = e.pc
                      THEN [e EXCEPT !.pc = e.pc + (code.bytes - 1)]
                      ELSE e,
              ret |-> op ]

(***************************************************************************)
(* The record of calls.                                                    *)
(***************************************************************************)
Last(h) == h[Len(h)]
Prev(h) == h[Len(h) - 1]
Prev2(h) == h[Len(h) - 2]

Keep(h) == IF Len(h) > 3 THEN SubSeq(h, Len(h) - 2, Len(h)) ELSE h

Log(call) ==
    /\ hist' = Keep(Append(hist, call))
    /\ budget' = budget - 1

PpuCall(op, arg, ret) ==
    [ op |-> op, arg |-> arg, ret |-> ret,
      hi_ptr0 |-> ppu.reg_addr.hi_ptr, latch0 |-> ppu.reg_scroll.latch ]

CpuCall(op, arg, ret) ==
    [ op |-> op, arg |-> arg, ret |-> ret, sp0 |-> cpu.sp, pc0 |-> cpu.pc ]

PpuReady == budget > 0 /\ ~ppu.panicked
CpuReady == budget > 0

(***************************************************************************)
(* The cartridge: 8 KiB of CHR-ROM.                                        *)
(***************************************************************************)
CHR_ROM_SIZE == 8192

ChrRom ==
    [ len |-> CHR_ROM_SIZE,
      mem |-> [a \in {\h0000, \h0001, \h0800, \h1FFF} |->
                  CASE a = \h0000 -> \hA0 [] a = \h0001 -> \hA1
                    [] a = \h0800 -> \hA8 [] OTHER -> \hAF] ]

(***************************************************************************)
(* PPU operations as actions.                                              *)
(***************************************************************************)
WriteToPpuAddr(v) ==
    /\ PpuReady
    /\ ppu' = write_to_ppu_addr(ppu, v)
    /\ Log(PpuCall("write_to_ppu_addr", v, None))
    /\ UNCHANGED cpu

WriteToScroll(v) ==
    /\ PpuReady
    /\ ppu' = write_to_scroll(ppu, v)
    /\ Log(PpuCall("write_to_scroll", v, None))
    /\ UNCHANGED cpu

WriteToCtrl(v) ==
    /\ PpuReady
    /\ ppu' = write_to_ctrl(ppu, v)
    /\ Log(PpuCall("write_to_ctrl", v, None))
    /\ UNCHANGED cpu

ReadPpuStatus ==
    /\ PpuReady
    /\ LET r == read_ppu_status(ppu)
       IN  /\ ppu' = r.ppu
           /\ Log(PpuCall("read_ppu_status", None, Some(r.ret)))
    /\ UNCHANGED cpu

SetVblankStatus(b) ==
    /\ PpuReady
    /\ ppu' = [ppu EXCEPT !.reg_status = set_vblank_status(ppu.reg_status, b)]
    /\ Log(PpuCall("set_vblank_status", b, None))
    /\ UNCHANGED cpu

SetSpriteZeroHit(b) ==
    /\ PpuReady
    /\ ppu' = [ppu EXCEPT !.reg_status = set_sprite_zero_hit(ppu.reg_status, b)]
    /\ Log(PpuCall("set_sprite_zero_hit", b, None))
    /\ UNCHANGED cpu

SetSpriteOverflow(b) ==
    /\ PpuReady
    /\ ppu' = [ppu EXCEPT !.reg_status = set_sprite_overflow(ppu.reg_status, b)]
    /\ Log(PpuCall("set_sprite_overflow", b, None))
    /\ UNCHANGED cpu

WriteToData(v) ==
    /\ PpuReady
    /\ ppu' = write_to_data(ppu, v)
    /\ Log(PpuCall("write_to_data", v, None))
    /\ UNCHANGED cpu

ReadData ==
    /\ PpuReady
    /\ LET r == read_data(ppu)
       IN  /\ ppu' = r.ppu
           /\ Log(PpuCall("read_data", None, r.ret))
    /\ UNCHANGED cpu

WriteToOamAddr(v) ==
    /\ PpuReady
    /\ ppu' = write_to_oam_addr(ppu, v)
    /\ Log(PpuCall("write_to_oam_addr", v, None))
    /\ UNCHANGED cpu

WriteToOamData(v) ==
    /\ PpuReady
    /\ ppu' = write_to_oam_data(ppu, v)
    /\ Log(PpuCall("write_to_oam_data", v, None))
    /\ UNCHANGED cpu

ReadOamData ==
    /\ PpuReady
    /\ LET r == read_oam_data(ppu)
       IN  /\ ppu' = r.ppu
           /\ Log(PpuCall("read_oam_data", None, Some(r.ret)))
    /\ UNCHANGED cpu

\* The 256-byte pages handed to OAM DMA: a ramp, its reverse, and the page of
\* test_oam_dma ($77, $66 ..., $88)
DmaPage(k) ==
    CASE k = 1 -> [i \in 1..256 |-> i - 1]
      [] k = 2 -> [i \in 1..256 |-> 256 - i]
      [] OTHER -> [i \in 1..256 |->
                      IF i = 1 THEN \h77 ELSE IF i = 256 THEN \h88 ELSE \h66]

WriteOamDma(k) ==
    /\ PpuReady
    /\ ppu' = write_oam_dma(ppu, DmaPage(k))
    /\ Log(PpuCall("write_oam_dma", k, None))
    /\ UNCHANGED cpu

Tick(n) ==
    /\ PpuReady
    /\ ppu' = tick(ppu, n)
    /\ Log(PpuCall("tick", n, None))
    /\ UNCHANGED cpu

PullNmiIrq ==
    /\ PpuReady
    /\ LET r == pull_nmi_irq(ppu)
       IN  /\ ppu' = r.ppu
           /\ Log(PpuCall("pull_nmi_irq", None, r.ret))
    /\ UNCHANGED cpu

(***************************************************************************)
(* CPU operations as actions.                                              *)
(***************************************************************************)
StackPush(b) ==
    /\ CpuReady
    /\ cpu' = stack_push(cpu, b)
    /\ Log(CpuCall("stack_push", b, None))
    /\ UNCHANGED ppu

StackPop ==
    /\ CpuReady
    /\ LET r == stack_pop(cpu)
       IN  /\ cpu' = r.cpu
           /\ Log(CpuCall("stack_pop", None, r.ret))
    /\ UNCHANGED ppu

\* ADC with the operand m that fetch_operand read
Adc(m) ==
    /\ CpuReady
    /\ cpu' = add_to_register_a(cpu, m)
    /\ Log(CpuCall("adc", m, None))
    /\ UNCHANGED ppu

Reset ==
    /\ CpuReady
    /\ cpu.at = "idle"
    /\ cpu' = reset(cpu)
    /\ Log(CpuCall("reset", None, None))
    /\ UNCHANGED ppu

\* load_run_reset(program), as far as the head of the loop of run
LoadRunReset(program) ==
    /\ CpuReady
    /\ cpu.at = "idle"
    /\ cpu' = run_enter(reset(load_program(cpu, program)))
    /\ Log(CpuCall("load_run_reset", program, None))
    /\ UNCHANGED ppu

\* One turn of the loop; the call record holds the opcode fetched and, in
\* pc0, the address it was fetched from
RunTurn ==
    /\ CpuReady
    /\ cpu.at = "loop"
    /\ LET r == run_turn(cpu)
       IN  /\ cpu' = r.cpu
           /\ Log(CpuCall("run_turn", None, Some(r.ret)))
    /\ UNCHANGED ppu

(***************************************************************************)
(* Specifications.                                                         *)
(*                                                                         *)
(* Spec: the write latch of $2005/$2006 and the STATUS read that resets    *)
(* it, from a freshly constructed PPU.                                     *)
(***************************************************************************)
AddrBytes == {\h00, \h05, \h21, \h63, \hFF}
ScrollBytes == {\h00, \h7A}

Init ==
    /\ cpu = CPU_new
    /\ ppu = PPU_new(ChrRom, "HORIZONTAL")
    /\ hist = <<>>
    /\ budget = MaxRegOps

Next ==
    \/ \E v \in AddrBytes : WriteToPpuAddr(v)
    \/ \E v \in ScrollBytes : WriteToScroll(v)
    \/ ReadPpuStatus

Spec == Init /\ [][Next]_vars

(***************************************************************************)
(* SpecStatus: the STATUS register, its three flags set and cleared as     *)
(* the renderer does, and read through $2002.                              *)
(***************************************************************************)
InitStatus ==
    /\ cpu = CPU_new
    /\ ppu = PPU_new(ChrRom, "HORIZONTAL")
    /\ hist = <<>>
    /\ budget = MaxStatusOps

NextStatus ==
    \/ \E b \in BOOLEAN : SetVblankStatus(b)
    \/ \E b \in BOOLEAN : SetSpriteZeroHit(b)
    \/ \E b \in BOOLEAN : SetSpriteOverflow(b)
    \/ ReadPpuStatus
    \/ \E v \in {\h21} : WriteToPpuAddr(v)

SpecStatus == InitStatus /\ [][NextStatus]_vars

(***************************************************************************)
(* SpecOam: OAMADDR, OAMDATA and OAM DMA.                                  *)
(***************************************************************************)
OamStarts == {\h00, \h0F, \h10, \hFF}

InitOam ==
    /\ cpu = CPU_new
    /\ \E s \in OamStarts :
           ppu = write_to_oam_addr(PPU_new(ChrRom, "HORIZONTAL"), s)
    /\ hist = <<>>
    /\ budget = MaxOamOps

NextOam ==
    \/ \E v \in {\h10} : WriteToOamAddr(v)
    \/ \E v \in {\h66} : WriteToOamData(v)
    \/ ReadOamData
    \/ \E k \in {1, 3} : WriteOamDma(k)

SpecOam == InitOam /\ [][NextOam]_vars

(***************************************************************************)
(* SpecDma: OAM DMA of each page from every OAMADDR.                       *)
(***************************************************************************)
InitDma ==
    /\ cpu = CPU_new
    /\ \E s \in Byte : ppu = write_to_oam_addr(PPU_new(ChrRom, "HORIZONTAL"), s)
    /\ hist = <<>>
    /\ budget = MaxDmaOps

NextDma ==
    \/ \E k \in 1..3 : WriteOamDma(k)

SpecDma == InitDma /\ [][NextDma]_vars

(***************************************************************************)
(* SpecData: the data port $2007 with $2006 and CTRL's increment bit.      *)
(* A behaviour starts after the register writes of a set-up: nothing, or   *)
(* a fill of nametable and palette cells, then an address written as two   *)
(* bytes.                                                                  *)
(***************************************************************************)
PpuApply(p, call) ==
    CASE call[1] = "write_to_ppu_addr" -> write_to_ppu_addr(p, call[2])
      [] call[1] = "write_to_data" -> write_to_data(p, call[2])
      [] call[1] = "write_to_ctrl" -> write_to_ctrl(p, call[2])

RECURSIVE RunPpu(_, _)
RunPpu(p, calls) ==
    IF calls = <<>> \/ p.panicked THEN p
    ELSE RunPpu(PpuApply(p, Head(calls)), Tail(calls))

SetAddr(hi, lo) == << <<"write_to_ppu_addr", hi>>, <<"write_to_ppu_addr", lo>> >>
Put(v) == << <<"write_to_data", v>> >>

Fill ==
    SetAddr(\h21, \hFF) \o Put(\h66) \o Put(\h77)
    \o SetAddr(\h2F, \hFF) \o Put(\h2F)
    \o SetAddr(\h3F, \h00) \o Put(\h11) \o Put(\h12)
    \o SetAddr(\h3F, \h10) \o Put(\h13)
    \o SetAddr(\h3F, \h1F) \o Put(\h1F)

SetUps == {<<>>, Fill}
DataHi == {\h00, \h1F, \h21, \h2F, \h30, \h3E, \h3F, \h63}
DataLo == {\h00, \h05, \h1F, \h20, \hFF}

InitData ==
    /\ cpu = CPU_new
    /\ \E m \in Mirroring, s \in SetUps, hi \in DataHi, lo \in DataLo :
           ppu = RunPpu(PPU_new(ChrRom, m), s \o SetAddr(hi, lo))
    /\ hist = <<>>
    /\ budget = MaxDataOps

NextData ==
    \/ ReadData
    \/ \E v \in {\h99} : WriteToData(v)
    \/ \E v \in {\h00, \h04} : WriteToCtrl(v)
    \/ \E v \in {\h00, \h3F} : WriteToPpuAddr(v)

SpecData == InitData /\ [][NextData]_vars

(***************************************************************************)
(* SpecStack: pushes and pulls from every stack pointer (LDX #s; TXS).     *)
(***************************************************************************)
StackBytes == {\h00, \h5A, \hFF}

InitStack ==
    /\ \E s \in Byte : cpu = txs(set_reg_X(CPU_new, s))
    /\ ppu = PPU_new(ChrRom, "HORIZONTAL")
    /\ hist = <<>>
    /\ budget = MaxStackOps

NextStack ==
    \/ \E b \in StackBytes : StackPush(b)
    \/ StackPop

SpecStack == InitStack /\ [][NextStack]_vars

(***************************************************************************)
(* SpecAlu: one arithmetic instruction from every accumulator and carry    *)
(* (LDA #a; SEC or CLC), with every operand.                               *)
(***************************************************************************)
InitAlu ==
    /\ \E a \in Byte, c \in BOOLEAN :
           cpu = set_state(set_reg_A(CPU_new, a), CARRY_MASK, c)
    /\ ppu = PPU_new(ChrRom, "HORIZONTAL")
    /\ hist = <<>>
    /\ budget = 1

NextAlu ==
    \/ \E m \in Byte : Adc(m)

SpecAlu == InitAlu /\ [][NextAlu]_vars

(***************************************************************************)
(* SpecMirror: $2007 accesses at every nametable address under both        *)
(* mirrorings.  The PPU starts with ADDR at the nametable address a,       *)
(* either fresh or after a byte was written through another logical page   *)
(* at the offset of a (as in test_vram_horizontal_mirror).                 *)
(***************************************************************************)
NametableAddrs == \h2000..\h2FFF
MirrorOffsets == {\h000, \h005, \h3FF}
NametablePages == {\h20, \h24, \h28, \h2C}

AddrOf(a) == SetAddr(a \div 256, a % 256)

InitMirror ==
    /\ cpu = CPU_new
    /\ \E m \in Mirroring, a \in NametableAddrs :
          \/ ppu = RunPpu(PPU_new(ChrRom, m), AddrOf(a))
          \/ /\ (a % \h400) \in MirrorOffsets
             /\ \E pg \in NametablePages :
                   /\ pg * 256 # a - (a % \h400)
                   /\ ppu = RunPpu(PPU_new(ChrRom, m),
                                   AddrOf(pg * 256 + (a % \h400)) \o Put(\h99) \o AddrOf(a))
    /\ hist = <<>>
    /\ budget = MaxMirrorOps

NextMirror ==
    \/ ReadData
    \/ \E v \in {\h55} : WriteToData(v)

SpecMirror == InitMirror /\ [][NextMirror]_vars

(***************************************************************************)
(* SpecPalette: $2007 accesses in the palette table $3F00-$3F1F.  The PPU  *)
(* starts with ADDR at a palette address, either fresh or, for an address  *)
(* of an alias pair, after a byte was written through the other address of *)
(* the pair.                                                               *)
(***************************************************************************)
PaletteAddrs == \h3F00..\h3F1F
PalettePairs ==
    {<<\h3F00 + k, \h3F10 + k>> : k \in {\h0, \h4, \h8, \hC}}
        \cup {<<\h3F10 + k, \h3F00 + k>> : k \in {\h0, \h4, \h8, \hC}}

InitPalette ==
    /\ cpu = CPU_new
    /\ \E a \in PaletteAddrs :
          \/ ppu = RunPpu(PPU_new(ChrRom, "HORIZONTAL"), AddrOf(a))
          \/ \E pair \in PalettePairs :
                /\ pair[2] = a
                /\ ppu = RunPpu(PPU_new(ChrRom, "HORIZONTAL"),
                                AddrOf(pair[1]) \o Put(\h99) \o AddrOf(a))
    /\ hist = <<>>
    /\ budget = MaxPaletteOps

NextPalette ==
    \/ ReadData
    \/ \E v \in {\h55} : WriteToData(v)
    \/ \E v \in {\h3F, \h00, \h10} : WriteToPpuAddr(v)

SpecPalette == InitPalette /\ [][NextPalette]_vars

(***************************************************************************)
(* SpecTick: the dot and scanline counters, vblank and the pending NMI.    *)
(* tick counts at most one scanline per call, so line 241 is 241 calls     *)
(* away from a new PPU: the PPU starts on one of the lines StartLines,     *)
(* brought there by that many calls tick(MAX_CYCLE) and one call tick(d),  *)
(* with NMI enabled or disabled in CTRL beforehand.                        *)
(***************************************************************************)
RECURSIVE TickLines(_, _)
TickLines(p, n) ==
    IF p.panicked \/ n = 0 THEN p
    ELSE IF n = 1 THEN tick(p, MAX_CYCLE)
    ELSE TickLines(TickLines(p, n \div 2), n - (n \div 2))

StartLines == {0, 239, 240, 241, 260, 261}
StartDots == {0, 313}
CtrlBytes == {\h00, \h80}
TickSizes == {1, 27, 314, 341, 628}

InitTick ==
    /\ cpu = CPU_new
    /\ \E v \in CtrlBytes, l \in StartLines, d \in StartDots :
          ppu = tick(TickLines(write_to_ctrl(PPU_new(ChrRom, "HORIZONTAL"), v), l), d)
    /\ hist = <<>>
    /\ budget = MaxTickOps

NextTick ==
    \/ \E n \in TickSizes : Tick(n)
    \/ \E v \in CtrlBytes : WriteToCtrl(v)
    \/ ReadPpuStatus
    \/ PullNmiIrq

SpecTick == InitTick /\ [][NextTick]_vars

(***************************************************************************)
(* SpecReset: reset and load_run_reset, from CPUs whose registers hold     *)
(* earlier results (LDA #a; LDX #x; TXS) and whose cartridge has its reset *)
(* vector at $8000, at $0600, or is blank.                                 *)
(***************************************************************************)
PrgRom(vector) ==
    [ len |-> PRG_ROM_SIZE,
      mem |-> [j \in {\h0000, \h7FFC, \h7FFD} |->
                  CASE j = \h7FFC -> vector % 256
                    [] j = \h7FFD -> vector \div 256
                    [] OTHER -> \hEA] ]

ResetVectors == {\h0600, \h8000}
Programs == {<<\hEA, \h00>>, <<\hE8, \hE8, \h00>>}

InitReset ==
    /\ \E a \in {\h00, \h80}, x \in {\h00, \h7F, \hFF} :
          LET c == txs(set_reg_X(set_reg_A(CPU_new, a), x))
          IN  \/ cpu = c
              \/ \E v \in ResetVectors : cpu = [c EXCEPT !.bus.prg_rom = PrgRom(v)]
    /\ ppu = PPU_new(ChrRom, "HORIZONTAL")
    /\ hist = <<>>
    /\ budget = MaxResetOps

NextReset ==
    \/ Reset
    \/ \E program \in Programs : LoadRunReset(program)
    \/ RunTurn

SpecReset == InitReset /\ [][NextReset]_vars

(***************************************************************************)
(* SpecRun: the loop of run_with_callback, turn by turn, from the head of  *)
(* the loop that load_run_reset(program) reaches, for programs that pull   *)
(* P, return from an interrupt, jump, call and return, branch, compare     *)
(* and address the zero page with an index.  The cartridge holds the       *)
(* three vectors.                                                          *)
(***************************************************************************)
MaxRunOps == 8

Vectors == [nmi |-> \h9010, reset |-> \h8000, irq |-> \hA020]

PrgRomVectors ==
    [ len |-> PRG_ROM_SIZE,
      mem |-> [j \in \h7FFA..\h7FFF |->
                  CASE j = \h7FFA -> Vectors.nmi % 256
                    [] j = \h7FFB -> Vectors.nmi \div 256
                    [] j = \h7FFC -> Vectors.reset % 256
                    [] j = \h7FFD -> Vectors.reset \div 256
                    [] j = \h7FFE -> Vectors.irq % 256
                    [] j = \h7FFF -> Vectors.irq \div 256] ]

PulledBytes == {\h00, \h10, \h20, \h30, \hCF, \hEF, \hFF}

\* LDA #v; PHA; PLP; PHP; PLA; BRK
FlagPrograms ==
    { <<\hA9, v, \h48, \h28, \h08, \h68, \h00>> : v \in PulledBytes }

\* LDA #>t; PHA; LDA #<t; PHA; LDA #v; PHA; RTI (at $0609); NOP; BRK
RtiTargets == {\h060A, \h060B}
RtiPrograms ==
    { <<\hA9, t \div 256, \h48, \hA9, t % 256, \h48, \hA9, v, \h48, \h40, \hEA, \h00>> :
          t \in RtiTargets, v \in PulledBytes }

\* JMP t (at $0600); NOP; NOP; BRK
JmpTargets == {\h0601, \h0603, \h0604, \h0605}
JmpPrograms ==
    { <<\h4C, t % 256, t \div 256, \hEA, \hEA, \h00>> : t \in JmpTargets }

\* LDX #s; TXS; JSR t (at $0603); BRK; NOP; RTS (at $0608)
JsrStacks == {\hFD, \h00, \h01, \hFF}
JsrTargets == {\h0604, \h0607, \h0608}
JsrPrograms ==
    { <<\hA2, s, \h9A, \h20, t % 256, t \div 256, \h00, \hEA, \h60>> :
          s \in JsrStacks, t \in JsrTargets }

\* LDA #v; a branch (at $0602) with offset off; NOP; NOP; BRK
BranchOps == {\h90, \hB0, \hF0, \hD0}
BranchOffsets == {\h00, \h01, \hFC, \hFE, \hFF}
BranchPrograms ==
    { <<\hA9, v, op, off, \hEA, \hEA, \h00>> :
          v \in {\h00, \h01}, op \in BranchOps, off \in BranchOffsets }

\* JMP ($02FF) (at $060F) after the bytes at $02FF, $0200 and $0300 are
\* stored, and JMP ($0280) (at $060A) after those at $0280 and $0281
IndirectWrapBytes == { <<\h80, \h40, \h50>>, <<\h10, \h06, \h07>>, <<\h12, \h06, \h06>> }
IndirectBytes == { <<\h0D, \h06>>, <<\h0B, \h06>>, <<\h34, \h12>> }
IndirectPrograms ==
    { <<\hA9, b[1], \h8D, \hFF, \h02, \hA9, b[2], \h8D, \h00, \h02,
        \hA9, b[3], \h8D, \h00, \h03, \h6C, \hFF, \h02>> : b \in IndirectWrapBytes }
    \cup
    { <<\hA9, b[1], \h8D, \h80, \h02, \hA9, b[2], \h8D, \h81, \h02,
        \h6C, \h80, \h02, \hEA, \h00>> : b \in IndirectBytes }

\* LDA #r; CMP #m; BRK, and the same with X and with Y
CompareBytes == {\h00, \h01, \h02, \h7F, \h80, \h81, \hFF}
CompareOps == { <<\hA9, \hC9>>, <<\hA2, \hE0>>, <<\hA0, \hC0>> }
ComparePrograms ==
    { <<o[1], r, o[2], m, \h00>> : o \in CompareOps, r \in CompareBytes, m \in CompareBytes }

\* LDX #x; LDY #y; LDA #$5A; STA zp,X; LDA #$00; LDA zp,X; LDX zp,Y; BRK
IndexBytes == {\h00, \h01, \h80, \hFF}
ZeroPageBytes == {\h00, \h7F, \h80, \hFF}
ZeroPagePrograms ==
    { <<\hA2, x, \hA0, y, \hA9, \h5A, \h95, zp, \hA9, \h00, \hB5, zp, \hB6, zp, \h00>> :
          x \in IndexBytes, y \in IndexBytes, zp \in ZeroPageBytes }

\* LDA #v; SEC or CLC; ROL A; ROR A; BRK, and with ROR A alone, and the
\* same on the byte at $10 (LDA #v; STA $10; SEC or CLC; ROL $10; ROR $10)
RotateBytes == {\h00, \h01, \h55, \h7F, \h80, \h81, \hFF}
RotatePrograms ==
    { <<\hA9, v, c, \h2A, \h6A, \h00>> : v \in RotateBytes, c \in {\h38, \h18} }
    \cup
    { <<\hA9, v, c, \h6A, \h00>> : v \in RotateBytes, c \in {\h38, \h18} }
    \cup
    { <<\hA9, v, \h85, \h10, c, \h26, \h10, \h66, \h10, \h00>> :
          v \in RotateBytes, c \in {\h38, \h18} }
    \cup
    { <<\hA9, v, \h85, \h10, c, \h66, \h10, \h00>> :
          v \in RotateBytes, c \in {\h38, \h18} }

RunPrograms ==
    FlagPrograms \cup RtiPrograms \cup JmpPrograms \cup JsrPrograms
        \cup BranchPrograms \cup IndirectPrograms \cup ComparePrograms
        \cup ZeroPagePrograms \cup RotatePrograms

InitRun ==
    /\ \E program \in RunPrograms :
          cpu = run_enter(reset(load_program(
                    [CPU_new EXCEPT !.bus.prg_rom = PrgRomVectors], program)))
    /\ ppu = PPU_new(ChrRom, "HORIZONTAL")
    /\ hist = <<>>
    /\ budget = MaxRunOps

NextRun ==
    \/ RunTurn

SpecRun == InitRun /\ [][NextRun]_vars

(***************************************************************************)
(* SpecNmi: the loop of run_with_callback beside a PPU that ticks into     *)
(* vertical blank.  The CPU runs a loop of NOPs with I set or clear; the   *)
(* PPU starts near line 241 with NMI enabled or disabled in CTRL.          *)
(***************************************************************************)
MaxNmiOps == 4

\* SEI or CLI; NOP; NOP; JMP $0601
NmiPrograms == { <<i, \hEA, \hEA, \h4C, \h01, \h06>> : i \in {\h78, \h58} }
NmiStartLines == {240, 241}
NmiTickSizes == {1, 314}

InitNmi ==
    /\ \E program \in NmiPrograms :
          cpu = run_enter(reset(load_program(
                    [CPU_new EXCEPT !.bus.prg_rom = PrgRomVectors], program)))
    /\ \E v \in CtrlBytes, l \in NmiStartLines, d \in StartDots :
          ppu = tick(TickLines(write_to_ctrl(PPU_new(ChrRom, "HORIZONTAL"), v), l), d)
    /\ hist = <<>>
    /\ budget = MaxNmiOps

NextNmi ==
    \/ \E n \in NmiTickSizes : Tick(n)
    \/ RunTurn

SpecNmi == InitNmi /\ [][NextNmi]_vars

(***************************************************************************)
(* SpecFrames: tick called again and again, frame after frame, with NMI    *)
(* enabled in CTRL throughout, in steps from one dot to two scanlines, and *)
(* pull_nmi_irq at any moment.  The calls are not recorded.  tick keeps    *)
(* what is left of the dots of a step above MAX_CYCLE in the dot counter;  *)
(* a step is taken while the counter stays within MaxDots.  Ticks keep     *)
(* coming: weak fairness of the tick steps.                                *)
(***************************************************************************)
MaxDots == 700

FrameTickSizes == {1, 157, 314, 628}

InitFrames ==
    /\ cpu = CPU_new
    /\ ppu = write_to_ctrl(PPU_new(ChrRom, "HORIZONTAL"), \h80)
    /\ hist = <<>>
    /\ budget = 0

TickOn(n) ==
    /\ ~ppu.panicked
    /\ ppu.clock_cycles + n <= MaxDots
    /\ ppu' = tick(ppu, n)
    /\ UNCHANGED <<cpu, hist, budget>>

PullOn ==
    /\ ~ppu.panicked
    /\ ppu' = pull_nmi_irq(ppu).ppu
    /\ UNCHANGED <<cpu, hist, budget>>

NextFrames ==
    \/ \E n \in FrameTickSizes : TickOn(n)
    \/ PullOn

SpecFrames ==
    InitFrames /\ [][NextFrames]_vars /\ WF_vars(\E n \in FrameTickSizes : TickOn(n))

(***************************************************************************)
(* The claims.                                                             *)
(***************************************************************************)
IsCall(h, op) == h # <<>> /\ Last(h).op = op
IsPrevCall(h, op) == Len(h) >= 2 /\ Prev(h).op = op
IsPrev2Call(h, op) == Len(h) >= 3 /\ Prev2(h).op = op

\* C1: for every A, operand M and carry-in C, ADC leaves
\* A_new + 256 * C_new = A_old + M + C_old.
C1_AdcSum ==
    [][ IsCall(hist', "adc") =>
          cpu'.A + 256 * (cpu'.state % 2)
              = cpu.A + Last(hist').arg + (cpu.state % 2) ]_vars

\* $FF + $FF + 1 = $1FF: carry in and carry out
C1_Witness ==
    /\ IsCall(hist, "adc")
    /\ Last(hist).arg = \hFF
    /\ cpu.A = \hFF
    /\ cpu.state % 2 = 1

\* C2: a push writes its byte at $0100 + SP and nowhere else and decrements
\* SP modulo 256; a pull increments SP modulo 256 and returns the byte at
\* $0100 + SP; a pull right after a push returns the pushed byte and leaves
\* SP as it was before the push.
C2_PushPop ==
    [][ /\ IsCall(hist', "stack_push") =>
              /\ mem_read(cpu', \h0100 + cpu.sp) = Last(hist').arg
              /\ \A a \in ((DOMAIN cpu.bus.ram) \cup (DOMAIN cpu'.bus.ram))
                              \ {\h0100 + cpu.sp} :
                     MemGet(cpu'.bus.ram, a) = MemGet(cpu.bus.ram, a)
              /\ cpu'.sp = (cpu.sp + 255) % 256
        /\ IsCall(hist', "stack_pop") =>
              /\ cpu'.sp = (cpu.sp + 1) % 256
              /\ Last(hist').ret = Some(mem_read(cpu, \h0100 + ((cpu.sp + 1) % 256)))
              /\ cpu'.bus = cpu.bus
              /\ IsCall(hist, "stack_push") =>
                     /\ Last(hist').ret = Some(Last(hist).arg)
                     /\ cpu'.sp = Last(hist).sp0 ]_vars

\* a push at SP = $00 (to $0100, SP wraps to $FF) pulled back
C2_Witness ==
    /\ IsPrevCall(hist, "stack_push")
    /\ Prev(hist).sp0 = \h00
    /\ Prev(hist).arg = \h5A
    /\ IsCall(hist, "stack_pop")
    /\ Last(hist).ret = Some(\h5A)
    /\ cpu.sp = \h00

\* C3: with the $2006 latch in its reset state, writing hi then lo leaves
\* ADDR = ((hi & $3F) << 8) | lo.
C3_AddrPair ==
    ( /\ IsPrevCall(hist, "write_to_ppu_addr")
      /\ Prev(hist).hi_ptr0
      /\ IsCall(hist, "write_to_ppu_addr") )
    => AddrRegister_get(ppu.reg_addr)
           = ((Prev(hist).arg % 64) * 256) + Last(hist).arg

\* $63 then $05 gives $2305
C3_Witness ==
    /\ IsPrevCall(hist, "write_to_ppu_addr")
    /\ Prev(hist).hi_ptr0
    /\ Prev(hist).arg = \h63
    /\ IsCall(hist, "write_to_ppu_addr")
    /\ Last(hist).arg = \h05
    /\ AddrRegister_get(ppu.reg_addr) = \h2305

\* C4: after any $2006 writes, $2007 reads and $2007 writes, ADDR is in
\* $0000..$3FFF.
C4_AddrRange ==
    /\ ppu.reg_addr.val0 \in Byte
    /\ ppu.reg_addr.val1 \in Byte
    /\ ppu.reg_addr.val0 * 256 + ppu.reg_addr.val1 \in 0..\h3FFF

\* a $2007 access that carried from the low byte into the high byte
C4_Witness ==
    /\ IsCall(hist, "write_to_data")
    /\ ~ppu.panicked
    /\ ppu.reg_addr.val0 = \h30
    /\ ppu.reg_addr.val1 = \h00

\* C5: after a STATUS read the next $2006 write is the high byte and the one
\* after it the low byte, however many $2006 writes came before the read.
C5_StatusResetsLatch ==
    /\ ( IsPrevCall(hist, "read_ppu_status") /\ IsCall(hist, "write_to_ppu_addr") )
        => ppu.reg_addr.val0 = Last(hist).arg % 64
    /\ ( /\ IsPrev2Call(hist, "read_ppu_status")
         /\ IsPrevCall(hist, "write_to_ppu_addr")
         /\ IsCall(hist, "write_to_ppu_addr") )
        => AddrRegister_get(ppu.reg_addr)
               = ((Prev(hist).arg % 64) * 256) + Last(hist).arg

\* one $2006 write, a STATUS read, then $21 and $05: ADDR = $2105
C5_Witness ==
    /\ IsPrev2Call(hist, "read_ppu_status")
    /\ ~Prev2(hist).hi_ptr0
    /\ IsPrevCall(hist, "write_to_ppu_addr")
    /\ Prev(hist).arg = \h21
    /\ IsCall(hist, "write_to_ppu_addr")
    /\ Last(hist).arg = \h05
    /\ AddrRegister_get(ppu.reg_addr) = \h2105

\* C6: $2005 and $2006 share one write latch: from the reset latch, a $2005
\* write followed by a $2006 write makes the $2006 write the low-byte write,
\* and a $2006 write followed by a $2005 write makes the $2005 write the
\* second scroll write.
C6_SharedLatch ==
    /\ ( /\ IsPrevCall(hist, "write_to_scroll")
         /\ Prev(hist).hi_ptr0 /\ Prev(hist).latch0
         /\ IsCall(hist, "write_to_ppu_addr") )
        => ppu.reg_addr.val1 = Last(hist).arg
    /\ ( /\ IsPrevCall(hist, "write_to_ppu_addr")
         /\ Prev(hist).hi_ptr0 /\ Prev(hist).latch0
         /\ IsCall(hist, "write_to_scroll") )
        => ppu.reg_scroll.y = Last(hist).arg

\* C7: a STATUS read returns the bits as they were before the read; after it
\* vblank (bit 7) is 0 and sprite-0 hit (bit 6) and sprite overflow (bit 5)
\* are as before.
C7_StatusRead ==
    [][ IsCall(hist', "read_ppu_status") =>
          /\ Last(hist').ret = Some(ppu.reg_status)
          /\ ppu'.reg_status \div 128 = 0
          /\ ppu'.reg_status % 128 = ppu.reg_status % 128 ]_vars

\* a read with all three flags set returns $E0 and leaves $60
C7_Witness ==
    /\ IsCall(hist, "read_ppu_status")
    /\ Last(hist).ret = Some(\hE0)
    /\ ppu.reg_status = \h60

\* C8: an OAMDATA read returns the OAM byte at OAMADDR and leaves OAMADDR
\* unchanged; a read right after a read returns the same byte.
C8_OamReadKeepsAddr ==
    [][ IsCall(hist', "read_oam_data") =>
          /\ Last(hist').ret = Some(ppu.oam_data[ppu.reg_oam_addr])
          /\ ppu'.reg_oam_addr = ppu.reg_oam_addr
          /\ IsCall(hist, "read_oam_data") => Last(hist').ret = Last(hist).ret ]_vars

\* C9: OAM DMA of the page d from OAMADDR s leaves oam[(s + i) mod 256] =
\* d[i] for every i in 0..255, and OAMADDR = s.
C9_OamDma ==
    [][ IsCall(hist', "write_oam_dma") =>
          /\ \A i \in 0..255 :
                 ppu'.oam_data[(ppu.reg_oam_addr + i) % 256]
                     = DmaPage(Last(hist').arg)[i + 1]
          /\ ppu'.reg_oam_addr = ppu.reg_oam_addr ]_vars

\* the page of test_oam_dma from $10: its last byte lands at $0F
C9_Witness ==
    /\ IsCall(hist, "write_oam_dma")
    /\ Last(hist).arg = 3
    /\ ppu.reg_oam_addr = \h10
    /\ ppu.oam_data[\h10] = \h77
    /\ ppu.oam_data[\h0F] = \h88
    /\ ppu.oam_data[\hFF] = \h66

\* The palette entry a palette address names: 32 entries, with $10, $14,
\* $18 and $1C naming $00, $04, $08 and $0C
PaletteEntry(a) ==
    LET i == (a - \h3F00) % 32
    IN  IF i \in {\h10, \h14, \h18, \h1C} THEN i - \h10 ELSE i

\* The byte a pattern-table or nametable address names
PatternOrNametableByte(p, a) ==
    IF a < \h2000 THEN MemGet(p.chr_rom.mem, a)
    ELSE MemGet(p.vram, mirror_vram_addr(p, a))

\* C10: a $2007 read with ADDR in $0000-$2FFF returns the read buffer and
\* loads the buffer with the byte at ADDR; a $2007 read with ADDR in the
\* palette region returns the palette byte at ADDR in that read.
C10_DataRead ==
    [][ IsCall(hist', "read_data") =>
          LET a == AddrRegister_get(ppu.reg_addr)
          IN  /\ a \in 0..\h2FFF =>
                    /\ Last(hist').ret = Some(ppu.internal_data_buf)
                    /\ ppu'.internal_data_buf = PatternOrNametableByte(ppu, a)
              /\ a \in \h3F00..\h3FFF =>
                    Last(hist').ret = Some(ppu.palette_table[PaletteEntry(a)]) ]_vars

PhysicalCell(mirroring, a) ==
    LET page == (a - \h2000) \div \h400
        offset == (a - \h2000) % \h400
        physical == IF mirroring = "VERTICAL" THEN page % 2 ELSE page \div 2
    IN  physical * \h400 + offset

\* C12: for every nametable address a, page = (a - $2000) / $400: Vertical
\* maps pages 0 and 2 to physical page 0 and pages 1 and 3 to physical page
\* 1; Horizontal maps pages 0 and 1 to physical page 0 and pages 2 and 3 to
\* physical page 1; the offset is kept and the VRAM index is below 2048.  A
\* byte written through one logical page is read back through its mirror.
C12_Mirroring ==
    [][ LET a == AddrRegister_get(ppu.reg_addr)
            cell == PhysicalCell(ppu.mirroring, a)
        IN  a \in \h2000..\h2FFF =>
              /\ mirror_vram_addr(ppu, a) = cell
              /\ cell \in 0..2047
              /\ IsCall(hist', "write_to_data") =>
                    /\ ~ppu'.panicked
                    /\ ppu'.vram = MemSet(ppu.vram, cell, Last(hist').arg)
              /\ IsCall(hist', "read_data") =>
                    /\ ~ppu'.panicked
                    /\ ppu'.internal_data_buf = MemGet(ppu.vram, cell)
                    /\ \A pg \in 0..3 :
                          LET b == \h2000 + pg * \h400 + (a % \h400)
                          IN  PhysicalCell(ppu.mirroring, b) = cell =>
                                  MemGet(ppu.vram, mirror_vram_addr(ppu, b))
                                      = ppu'.internal_data_buf ]_vars

\* Vertical: the byte at VRAM cell $005 of page 0, the only one written,
\* comes back from two reads that started at $2805
C12_Witness ==
    /\ IsCall(hist, "read_data")
    /\ IsPrevCall(hist, "read_data")
    /\ ppu.mirroring = "VERTICAL"
    /\ AddrRegister_get(ppu.reg_addr) = \h2807
    /\ Last(hist).ret = Some(\h99)
    /\ MemGet(ppu.vram, \h005) = \h99


\* C13: $3F10, $3F14, $3F18 and $3F1C alias $3F00, $3F04, $3F08 and $3F0C:
\* a $2007 write through either address of a pair is returned by a $2007
\* read through the other, and no other palette entry changes.
C13_PaletteAlias ==
    [][ LET a == AddrRegister_get(ppu.reg_addr)
        IN  a \in \h3F00..\h3F1F =>
              /\ IsCall(hist', "write_to_data") =>
                    /\ ~ppu'.panicked
                    /\ ppu'.palette_table
                          = [ppu.palette_table EXCEPT ![PaletteEntry(a)] = Last(hist').arg]
                    /\ \A pair \in PalettePairs :
                          pair[1] = a =>
                              read_data([ppu' EXCEPT !.reg_addr =
                                            AddrRegister_set(@, pair[2])]).ret
                                  = Some(Last(hist').arg)
              /\ IsCall(hist', "read_data") =>
                    /\ ~ppu'.panicked
                    /\ Last(hist').ret = Some(ppu.palette_table[PaletteEntry(a)])
                    /\ ppu'.palette_table = ppu.palette_table ]_vars

\* the first access is a read at $3F10, of the $99 that was written through
\* $3F00
C13_Witness ==
    /\ Len(hist) = 1
    /\ IsCall(hist, "read_data")
    /\ Last(hist).ret = Some(\h99)
    /\ AddrRegister_get(ppu.reg_addr) = \h3F11
    /\ ppu.palette_table[\h00] = \h99
    /\ ppu.palette_table[\h10] = \h00

\* C14: a $2007 write with ADDR in $0000-$1FFF, and a $2007 read or write
\* with ADDR in $3000-$3EFF, ends in a fatal error and changes no VRAM,
\* palette or OAM byte.
C14_FatalRegions ==
    [][ LET a == AddrRegister_get(ppu.reg_addr)
        IN  ( \/ IsCall(hist', "write_to_data") /\ a \in 0..\h1FFF
              \/ IsCall(hist', "write_to_data") /\ a \in \h3000..\h3EFF
              \/ IsCall(hist', "read_data") /\ a \in \h3000..\h3EFF )
            => /\ ppu'.panicked
               /\ Last(hist').ret = None
               /\ ppu'.vram = ppu.vram
               /\ ppu'.palette_table = ppu.palette_table
               /\ ppu'.oam_data = ppu.oam_data
               /\ ppu'.internal_data_buf = ppu.internal_data_buf ]_vars

\* a read at $3EFF of a PPU whose nametable and palette hold bytes
C14_Witness ==
    /\ IsCall(hist, "read_data")
    /\ ppu.panicked
    /\ ppu.reg_ctrl = \h00
    /\ AddrRegister_get(ppu.reg_addr) = \h3F00
    /\ MemGet(ppu.vram, \h1FF) = \h66
    /\ ppu.palette_table[\h01] = \h12


\* C15: a CTRL write latches a pending NMI exactly when the NMI-enable bit
\* was 0 before the write, is 1 after it and the STATUS vblank flag is set;
\* in every other case the pending-NMI slot is as before.
C15_CtrlNmi ==
    [][ IsCall(hist', "write_to_ctrl") =>
          LET before == (ppu.reg_ctrl \div 128) % 2 = 1
              after == (Last(hist').arg \div 128) % 2 = 1
              vblank == (ppu.reg_status \div 128) % 2 = 1
          IN  /\ ppu'.reg_ctrl = Last(hist').arg
              /\ ppu'.nmi_irq = IF ~before /\ after /\ vblank
                                THEN Some(1)
                                ELSE ppu.nmi_irq ]_vars

\* in vblank: NMI disabled, the pending NMI taken, NMI enabled again
C15_Witness ==
    /\ IsPrev2Call(hist, "write_to_ctrl") /\ Prev2(hist).arg = \h00
    /\ IsPrevCall(hist, "pull_nmi_irq") /\ Prev(hist).ret = Some(1)
    /\ IsCall(hist, "write_to_ctrl") /\ Last(hist).arg = \h80
    /\ ppu.reg_status = \h80
    /\ ppu.nmi_irq = Some(1)

\* C16: when a tick brings the PPU to scanline 241 the STATUS vblank flag is
\* set whether or not CTRL's NMI-enable bit is set; a pending NMI is latched
\* at that point only if NMI-enable is set.
C16_VblankAt241 ==
    [][ (IsCall(hist', "tick") /\ ppu.scan_lines # 241 /\ ppu'.scan_lines = 241) =>
          LET enabled == (ppu.reg_ctrl \div 128) % 2 = 1
          IN  /\ (ppu'.reg_status \div 128) % 2 = 1
              /\ enabled => ppu'.nmi_irq = Some(1)
              /\ ~enabled => ppu'.nmi_irq = ppu.nmi_irq ]_vars


\* C17: after every call of tick the dot counter is in 0..340 and the
\* scanline counter in 0..261; advancing past scanline 261 wraps the
\* scanline counter to 0.
C17_CounterRanges ==
    [][ IsCall(hist', "tick") =>
          /\ ppu'.clock_cycles \in 0..340
          /\ ppu'.scan_lines \in 0..261
          /\ (ppu.scan_lines = 261 /\ ppu'.scan_lines # 261) => ppu'.scan_lines = 0 ]_vars


\* The dots from the start of the frame to the position the counters name,
\* at 341 dots a scanline
FrameDot(p) == p.scan_lines * 341 + p.clock_cycles

\* C18: the scanline counter advances by exactly one for every 341 dots
\* ticked, a frame taking 262 * 341 dots, however the dots are split across
\* the calls of tick.
C18_DotsPerScanline ==
    [][ IsCall(hist', "tick") =>
          FrameDot(ppu') = (FrameDot(ppu) + Last(hist').arg) % (262 * 341) ]_vars


\* C19: when a tick brings the PPU to the pre-render scanline 261 the
\* vblank, sprite-0-hit and sprite-overflow bits of STATUS are all cleared,
\* so that all three are 0 when scanline 0 of the next frame begins.
C19_PreRenderClears ==
    [][ IsCall(hist', "tick") =>
          /\ (ppu.scan_lines # 261 /\ ppu'.scan_lines = 261) =>
                ppu'.reg_status \div 32 = 0
          /\ (ppu.scan_lines = 261 /\ ppu'.scan_lines = 0) =>
                ppu'.reg_status \div 32 = 0 ]_vars


\* C20: after reset, from any prior CPU state, A = X = Y = 0, SP = $FD,
\* P = 0b0010_0100 and PC is the little-endian 16-bit value at $FFFC/$FFFD;
\* execution started after reset (load_run_reset) fetches its first opcode
\* from that PC.
C20_Reset ==
    [][ /\ IsCall(hist', "reset") =>
              /\ cpu'.A = 0 /\ cpu'.X = 0 /\ cpu'.Y = 0
              /\ cpu'.sp = \hFD
              /\ cpu'.state = \b00100100
              /\ cpu'.pc = mem_read(cpu, \hFFFC) + 256 * mem_read(cpu, \hFFFD)
              /\ cpu'.bus = cpu.bus
        /\ (IsCall(hist, "load_run_reset") /\ IsCall(hist', "run_turn")) =>
              /\ Last(hist').pc0 = mem_read(cpu, \hFFFC) + 256 * mem_read(cpu, \hFFFD)
              /\ Last(hist').ret = Some(mem_read(cpu, Last(hist').pc0))
              /\ Last(hist').sp0 = \hFD ]_vars


\* C21: bit 5 of P is 1 in every CPU state between instructions, after any
\* sequence of instructions from reset, also after PLP and RTI pull a byte
\* whose bit 5 is 0.
C21_BitFive ==
    cpu.at = "loop" => fetch_break2_bit(cpu) = 1



\* C22: BRK at address a pushes a + 2 (high byte, then low byte), then
\* pushes P with bits 4 and 5 set, sets I, and loads PC from the vector at
\* $FFFE/$FFFF.
C22_Brk ==
    [][ (IsCall(hist', "run_turn") /\ Last(hist').ret = Some(\h00)) =>
          LET a == Last(hist').pc0
              sp == Last(hist').sp0
          IN  /\ mem_read(cpu', STACK + sp) = ((a + 2) % 65536) \div 256
              /\ mem_read(cpu', STACK + WrappingSub8(sp, 1)) = (a + 2) % 256
              /\ mem_read(cpu', STACK + WrappingSub8(sp, 2)) = BitOr(cpu.state, \h30)
              /\ cpu'.sp = WrappingSub8(sp, 3)
              /\ fetch_irq_bit(cpu') = 1
              /\ cpu'.pc = mem_read(cpu, \hFFFE) + 256 * mem_read(cpu, \hFFFF) ]_vars



\* C23: RTI pulls P with bit 4 forced to 0 and bit 5 forced to 1 (the other
\* bits as pulled), then pulls PC low byte first, and execution continues
\* at exactly that PC; SP has increased by 3 (mod 256).
C23_Rti ==
    [][ (IsCall(hist', "run_turn") /\ Last(hist').ret = Some(\h40)) =>
          LET sp == Last(hist').sp0
              p == mem_read(cpu, STACK + WrappingAdd8(sp, 1))
              lo == mem_read(cpu, STACK + WrappingAdd8(sp, 2))
              hi == mem_read(cpu, STACK + WrappingAdd8(sp, 3))
          IN  /\ cpu'.state = BitOr(BitAnd(p, \hCF), \h20)
              /\ cpu'.pc = hi * 256 + lo
              /\ cpu'.sp = WrappingAdd8(sp, 3) ]_vars



\* The target of the instruction op at address a in CPU state c, when it is
\* a jump, a call, a return or a taken branch; None for any other
\* instruction and for a branch not taken.
SignedOffset(b) == IF b >= 128 THEN b - 256 ELSE b

Mem16(c, addr) == mem_read(c, addr) + 256 * mem_read(c, (addr + 1) % 65536)

Pulled16(c, n) ==
    mem_read(c, STACK + WrappingAdd8(c.sp, n))
        + 256 * mem_read(c, STACK + WrappingAdd8(c.sp, n + 1))

BranchTaken(c, op) ==
    CASE op = \h90 -> BitAnd(c.state, CARRY_MASK) = 0
      [] op = \hB0 -> BitAnd(c.state, CARRY_MASK) # 0
      [] op = \hF0 -> BitAnd(c.state, ZERO_MASK) # 0
      [] op = \hD0 -> BitAnd(c.state, ZERO_MASK) = 0
      [] OTHER -> FALSE

TransferTarget(c, op, a) ==
    CASE op \in {\h4C, \h20} -> Some(Mem16(c, a + 1))
      [] op = \h6C ->
            LET p == Mem16(c, a + 1)
            IN  Some(IF p % 256 # \hFF
                     THEN mem_read(c, p) + 256 * mem_read(c, p + 1)
                     ELSE mem_read(c, p) + 256 * mem_read(c, p - \hFF))
      [] op = \h60 -> Some((Pulled16(c, 1) + 1) % 65536)
      [] op = \h40 -> Some(Pulled16(c, 2))
      [] BranchTaken(c, op) ->
            Some((a + 2 + SignedOffset(mem_read(c, a + 1))) % 65536)
      [] OTHER -> None

\* C24: after every executed instruction, PC is exactly the computed target
\* when the instruction is a taken branch, JMP, JSR, RTS or RTI, for every
\* target (the address of the instruction's own operand byte included), and
\* the opcode address plus the instruction's size otherwise.
C24_NextPc ==
    [][ (IsCall(hist', "run_turn") /\ cpu'.at = "loop") =>
          LET op == Last(hist').ret[1]
              a == Last(hist').pc0
              target == TransferTarget(cpu, op, a)
          IN  IF target # None
              THEN cpu'.pc = target[1]
              ELSE cpu'.pc = a + OPCODES_MAP[op].bytes ]_vars



\* C25: JMP (ind) with the pointer p sets PC to mem[p] | (mem[p + 1] << 8)
\* when the low byte of p is not $FF, and to mem[p] | (mem[p & $FF00] << 8)
\* when it is $FF (with [$30FF] = $80, [$3100] = $50, [$3000] = $40 the
\* jump goes to $4080).
C25_JmpIndirect ==
    [][ (IsCall(hist', "run_turn") /\ Last(hist').ret = Some(\h6C)) =>
          LET a == Last(hist').pc0
              p == Mem16(cpu, a + 1)
          IN  IF BitAnd(p, \hFF) # \hFF
              THEN cpu'.pc = BitOr(mem_read(cpu, p), mem_read(cpu, p + 1) * 256)
              ELSE cpu'.pc = BitOr(mem_read(cpu, p),
                                   mem_read(cpu, BitAnd(p, \hFF00)) * 256) ]_vars



\* C26: JSR at address a with target t pushes a + 2, high byte first, and
\* sets PC to t; the RTS that follows with the stack balanced sets PC to
\* a + 3 and restores SP, for every SP, with wrap-around of the pushes.
C26_JsrRts ==
    [][ /\ (IsCall(hist', "run_turn") /\ Last(hist').ret = Some(\h20)) =>
              LET a == Last(hist').pc0
                  sp == Last(hist').sp0
              IN  /\ mem_read(cpu', STACK + sp) = (a + 2) \div 256
                  /\ mem_read(cpu', STACK + WrappingSub8(sp, 1)) = (a + 2) % 256
                  /\ cpu'.sp = WrappingSub8(sp, 2)
                  /\ cpu'.pc = Mem16(cpu, a + 1)
        /\ ( /\ IsCall(hist, "run_turn") /\ Last(hist).ret = Some(\h20)
             /\ IsCall(hist', "run_turn") /\ Last(hist').ret = Some(\h60) ) =>
              /\ cpu'.pc = Last(hist).pc0 + 3
              /\ cpu'.sp = Last(hist).sp0 ]_vars



\* C27: with an NMI pending in the PPU, the CPU services it before its next
\* fetch, whatever I is: it pushes PC, pushes P with bit 4 = 0 and bit 5 = 1,
\* sets I and loads PC from the vector at $FFFA/$FFFB, and the pending NMI
\* is consumed.
C27_NmiServiced ==
    [][ (ppu.nmi_irq # None /\ IsCall(hist', "run_turn")) =>
          /\ mem_read(cpu', STACK + cpu.sp) = cpu.pc \div 256
          /\ mem_read(cpu', STACK + WrappingSub8(cpu.sp, 1)) = cpu.pc % 256
          /\ mem_read(cpu', STACK + WrappingSub8(cpu.sp, 2))
                 = BitOr(BitAnd(cpu.state, \hEF), \h20)
          /\ cpu'.sp = WrappingSub8(cpu.sp, 3)
          /\ fetch_irq_bit(cpu') = 1
          /\ cpu'.pc = Mem16(cpu, \hFFFA)
          /\ ppu'.nmi_irq = None ]_vars



\* C28: ADC sets V to 1 exactly when A and M have the same sign and the
\* result's sign differs from it, and to 0 otherwise.
C28_AdcOverflow ==
    [][ IsCall(hist', "adc") =>
          LET m == Last(hist').arg
              same_sign == (cpu.A >= 128) = (m >= 128)
              differs == (cpu'.A >= 128) # (cpu.A >= 128)
          IN  fetch_overflow_bit(cpu') = IF same_sign /\ differs THEN 1 ELSE 0 ]_vars



\* C29: CMP, CPX and CPY with the register R and the operand M set C to 1
\* iff R >= M, Z to 1 iff R = M and N to bit 7 of (R - M) mod 256, and leave
\* R unchanged.
C29_Compare ==
    [][ (IsCall(hist', "run_turn") /\ Last(hist').ret[1] \in {\hC9, \hE0, \hC0}) =>
          LET op == Last(hist').ret[1]
              m == mem_read(cpu, Last(hist').pc0 + 1)
              r == CASE op = \hC9 -> cpu.A [] op = \hE0 -> cpu.X [] OTHER -> cpu.Y
          IN  /\ fetch_carry_bit(cpu') = IF r >= m THEN 1 ELSE 0
              /\ fetch_zero_bit(cpu') = IF r = m THEN 1 ELSE 0
              /\ fetch_negative_bit(cpu') = (((r - m) % 256) \div 128)
              /\ cpu'.A = cpu.A /\ cpu'.X = cpu.X /\ cpu'.Y = cpu.Y ]_vars



\* C30: the effective address of ZeroPage,X is (mem[PC] + X) mod 256 and
\* that of ZeroPage,Y is (mem[PC] + Y) mod 256, always in $0000-$00FF:
\* STA zp,X stores A there and nowhere else, LDA zp,X and LDX zp,Y load
\* the byte there.
C30_ZeroPageIndexed ==
    [][ (IsCall(hist', "run_turn") /\ Last(hist').ret[1] \in {\h95, \hB5, \hB6}) =>
          LET op == Last(hist').ret[1]
              zp == mem_read(cpu, Last(hist').pc0 + 1)
              ea == IF op = \hB6 THEN (zp + cpu.Y) % 256 ELSE (zp + cpu.X) % 256
          IN  CASE op = \h95 -> cpu'.bus = Bus_mem_write(cpu.bus, ea, cpu.A)
                [] op = \hB5 -> cpu'.A = mem_read(cpu, ea)
                [] OTHER -> cpu'.X = mem_read(cpu, ea) ]_vars



\* The operand of a rotate at pc0: the accumulator, or the zero-page byte
Rotated(c, op, a) ==
    IF op \in {\h2A, \h6A} THEN c.A ELSE mem_read(c, mem_read(c, a + 1))

\* C31: for every operand v and old carry c, ROR (on the accumulator and on
\* memory) produces (v >> 1) | (c << 7) and sets C to bit 0 of v; ROL
\* produces ((v << 1) mod 256) | c and sets C to bit 7 of v; so ROL followed
\* by ROR on the same operand restores the operand and C.
C31_Rotate ==
    [][ (IsCall(hist', "run_turn") /\ Last(hist').ret[1] \in {\h2A, \h26, \h6A, \h66}) =>
          LET op == Last(hist').ret[1]
              a == Last(hist').pc0
              v == Rotated(cpu, op, a)
              c == fetch_carry_bit(cpu)
          IN  /\ op \in {\h6A, \h66} =>
                    /\ Rotated(cpu', op, a) = (v \div 2) + 128 * c
                    /\ fetch_carry_bit(cpu') = v % 2
              /\ op \in {\h2A, \h26} =>
                    /\ Rotated(cpu', op, a) = ((v * 2) % 256) + c
                    /\ fetch_carry_bit(cpu') = v \div 128 ]_vars



\* C32: PHP writes the current P with bits 4 and 5 both set to the stack at
\* $0100 + SP and decrements SP; the live P, A, X and Y are unchanged.
C32_Php ==
    [][ (IsCall(hist', "run_turn") /\ Last(hist').ret = Some(\h08)) =>
          /\ mem_read(cpu', STACK + cpu.sp) = BitOr(cpu.state, \h30)
          /\ cpu'.sp = WrappingSub8(cpu.sp, 1)
          /\ cpu'.state = cpu.state
          /\ cpu'.A = cpu.A /\ cpu'.X = cpu.X /\ cpu'.Y = cpu.Y ]_vars



\* C33: every $2007 read or write whose ADDR lies in $3F00-$3FFF completes
\* without a fault and accesses a palette entry whose index is in 0..31.
C33_PaletteInBounds ==
    [][ ( /\ IsCall(hist', "read_data") \/ IsCall(hist', "write_to_data")
          /\ AddrRegister_get(ppu.reg_addr) \in \h3F00..\h3FFF ) =>
          LET a == AddrRegister_get(ppu.reg_addr)
          IN  /\ ~ppu'.panicked
              /\ IsCall(hist', "read_data") =>
                    Last(hist').ret = Some(ppu.palette_table[PaletteEntry(a)])
              /\ IsCall(hist', "write_to_data") =>
                    ppu'.palette_table[PaletteEntry(a)] = Last(hist').arg ]_vars



\* C34: with NMI enabled, tick latches a pending NMI at most once per frame:
\* once pull_nmi_irq has taken the NMI latched on entering scanline 241, a
\* tick that does not enter scanline 241 latches no other one.
C34_NmiOncePerFrame ==
    [][ ( /\ IsCall(hist, "pull_nmi_irq") /\ Last(hist).ret # None
          /\ IsCall(hist', "tick")
          /\ generate_vblank_nmi(ppu.reg_ctrl)
          /\ ~(ppu.scan_lines # 241 /\ ppu'.scan_lines = 241) ) =>
          ppu'.nmi_irq = None ]_vars



\* C35: after a STATUS read has cleared the vblank flag, the flag stays 0
\* through the tick calls of the same frame: a tick that does not enter
\* scanline 241 leaves it 0.
C35_VblankStaysClear ==
    [][ ( /\ IsCall(hist, "read_ppu_status")
          /\ IsCall(hist', "tick")
          /\ ~(ppu.scan_lines # 241 /\ ppu'.scan_lines = 241) ) =>
          ~is_in_vblank(ppu'.reg_status) ]_vars



\* C36: while CTRL's NMI-enable bit stays set and tick is called again and
\* again with a positive dot count of any size, a pending NMI is latched on
\* scanline 241 in every frame: again and again the PPU is on line 241 with
\* an NMI pending, and no step brings the scanline counter to 241, or past
\* it, without latching the NMI.
C36_NmiEveryFrame ==
    /\ []<>(ppu.scan_lines = 241 /\ ppu.nmi_irq # None)
    /\ [][ /\ (ppu.scan_lines # 241 /\ ppu'.scan_lines = 241) => ppu'.nmi_irq # None
           /\ ppu'.scan_lines \in {ppu.scan_lines, ppu.scan_lines + 1, 0}
           /\ (ppu.scan_lines = 240 /\ ppu'.scan_lines # 240) => ppu'.scan_lines = 241
       ]_vars

\* Line 241 entered by a step of two scanlines, the NMI latched
C36_Witness ==
    /\ ppu.scan_lines = 241
    /\ ppu.clock_cycles >= MAX_CYCLE
    /\ ppu.nmi_irq = Some(1)
    /\ generate_vblank_nmi(ppu.reg_ctrl)

====
